---- MODULE Spec2Model ----
(***************************************************************************)
(* Model of the Reactotron server CLI (reactotron-core-server/src/cli.ts), *)
(* of the server facade it drives (createServer, modelled from the design  *)
(* document because index.ts is not part of the sources), and of the       *)
(* CustomCommands page (reducer, item state, Send button).                 *)
(***************************************************************************)
EXTENDS Integers, Sequences, FiniteSets, TLC

\* ---------------------------------------------------------------- bounds
MaxArgs == 4            \* longest command line enumerated by SpecParse
MaxConns == 2           \* sockets accepted over one run
MaxFrames == 1          \* generic frames logged over one run

\* ------------------------------------------------------------- constants
DefaultPort == 9090

Procs == {1, 2}
ClientIds == {"A", "B"}

\* ------------------------------------------------------------ parseInt
Flags == {"--help", "-h", "--port", "-p", "--wss-pfx", "--wss-cert",
          "--wss-key", "--wss-passphrase"}
Values == {"9091", "80x", "abc"}
Tokens == Flags \cup Values

\* The characters of each command-line token (TLA+ strings are atomic).
Chars(tok) ==
  CASE tok = "9091" -> <<"9", "0", "9", "1">>
    [] tok = "80x" -> <<"8", "0", "x">>
    [] tok = "abc" -> <<"a", "b", "c">>
    [] tok = "-h" -> <<"-", "h">>
    [] tok = "-p" -> <<"-", "p">>
    [] OTHER -> <<"-", "-">>     \* a long flag, up to its second character

Digits == {"0", "1", "2", "3", "4", "5", "6", "7", "8", "9"}

DigitVal(c) ==
  CASE c = "0" -> 0 [] c = "1" -> 1 [] c = "2" -> 2 [] c = "3" -> 3
    [] c = "4" -> 4 [] c = "5" -> 5 [] c = "6" -> 6 [] c = "7" -> 7
    [] c = "8" -> 8 [] c = "9" -> 9

RECURSIVE DigitRun(_, _, _)
\* Number of leading decimal digits of cs from position i, folded into acc.
DigitRun(cs, i, acc) ==
  IF i > Len(cs) \/ cs[i] \notin Digits
    THEN [n |-> acc, next |-> i]
    ELSE DigitRun(cs, i + 1, [val |-> acc.val * 10 + DigitVal(cs[i]),
                              cnt |-> acc.cnt + 1])

\* parseInt(s, 10): optional sign, then the longest prefix of digits;
\* NaN when there is no digit at all.
ParseInt(cs) ==
  LET signed == Len(cs) >= 1 /\ cs[1] \in {"-", "+"}
      start == IF signed THEN 2 ELSE 1
      run == DigitRun(cs, start, [val |-> 0, cnt |-> 0]).n
  IN IF run.cnt = 0
       THEN [nan |-> TRUE, val |-> 0]
       ELSE [nan |-> FALSE,
             val |-> IF signed /\ cs[1] = "-" THEN 0 - run.val ELSE run.val]

\* ------------------------------------------------------------ parseArgs
EmptyObj == [k \in {} |-> ""]

SetKey(obj, key, v) == [k \in DOMAIN obj \cup {key} |-> IF k = key THEN v ELSE obj[k]]

Line(stream, msg, n, t) == [s |-> stream, m |-> msg, n |-> n, t |-> t]

\* ParseExit that reports the error and exits with code 0.
ParseExitCodeZero(msg, tok, i) ==
  [exited |-> TRUE, code |-> 0, err |-> Line("stderr", msg, 0, tok), read |-> i,
   port |-> 0, help |-> FALSE, hasWss |-> FALSE, wss |-> EmptyObj]

\* process.exit(1) inside parseArgs: the line printed and the index of the
\* last argument that was read.
ParseExit(msg, tok, i) ==
  [exited |-> TRUE, code |-> 1, err |-> Line("stderr", msg, 0, tok), read |-> i,
   port |-> 0, help |-> FALSE, hasWss |-> FALSE, wss |-> EmptyObj]

WssKey(flag) ==
  CASE flag = "--wss-pfx" -> "pathToPfx"
    [] flag = "--wss-cert" -> "pathToCert"
    [] flag = "--wss-key" -> "pathToKey"
    [] flag = "--wss-passphrase" -> "passphrase"

WssMissing(flag) ==
  CASE flag = "--wss-pfx" -> "--wss-pfx requires a path"
    [] flag = "--wss-cert" -> "--wss-cert requires a path"
    [] flag = "--wss-key" -> "--wss-key requires a path"
    [] flag = "--wss-passphrase" -> "--wss-passphrase requires a value"

RECURSIVE ParseLoop(_, _, _)
\* The for loop of parseArgs; i is the 1-based index of the next argument,
\* st holds result.port, result.help and wssOptions.
ParseLoop(args, i, st) ==
  IF i > Len(args)
    THEN [exited |-> FALSE, code |-> 0, err |-> Line("", "", 0, ""), read |-> Len(args),
          port |-> st.port, help |-> st.help,
          hasWss |-> (DOMAIN st.wssOptions # {}), wss |-> st.wssOptions]
    ELSE LET arg == args[i] IN
      CASE arg \in {"--help", "-h"} ->
             ParseLoop(args, i + 1, [st EXCEPT !.help = TRUE])
        [] arg \in {"--port", "-p"} ->
             IF i + 1 <= Len(args)
               THEN LET n == ParseInt(Chars(args[i + 1])) IN
                    IF n.nan
                      THEN ParseExit("Invalid port", args[i + 1], i + 1)
                      ELSE ParseLoop(args, i + 2, [st EXCEPT !.port = n.val])
               ELSE ParseExit("--port requires a value", "", i)
        [] arg \in {"--wss-pfx", "--wss-cert", "--wss-key", "--wss-passphrase"} ->
             IF i + 1 <= Len(args)
               THEN ParseLoop(args, i + 2,
                      [st EXCEPT !.wssOptions = SetKey(@, WssKey(arg), args[i + 1])])
               ELSE ParseExit(WssMissing(arg), "", i)
        [] OTHER -> ParseExit("Unknown argument", arg, i)

parseArgs(args) ==
  ParseLoop(args, 1, [port |-> DefaultPort, help |-> FALSE, wssOptions |-> EmptyObj])

\* ----------------------------------------------------------------- state
VARIABLES
  argv,       \* process.argv.slice(2) of each CLI process
  pc,         \* "absent" | "new" | "running" | "exited"
  parsed,     \* what parseArgs returned (or where it exited)
  options,    \* the ServerOptions handed to createServer
  srv,        \* server facade: Idle, Binding, Listening, Stopping, Stopped
  boundPort,  \* the port the process holds a listening socket on, 0 if none
  exitCode,   \* NoExit while the process lives
  exitCause,  \* which call of process.exit ended the process
  out,        \* lifecycle lines written to the console, in order
  stopInfo,   \* per process: connections live when stop() was called, events since
  conns,      \* connection registry, indexed by connection id
  ui          \* CustomCommands page: item states, heap of arg maps, invocations

vars == <<argv, pc, parsed, options, srv, boundPort, exitCode, exitCause, out,
          stopInfo, conns, ui>>

NoExit == 0 - 1
NoOptions == [created |-> FALSE, port |-> 0, hasWss |-> FALSE, wss |-> EmptyObj]
NotParsed == [exited |-> FALSE, code |-> 0, err |-> Line("", "", 0, ""), read |-> 0,
              port |-> 0, help |-> FALSE, hasWss |-> FALSE, wss |-> EmptyObj]
NoStop == [called |-> FALSE, from |-> "", n |-> 0, disconnected |-> 0, stopped |-> 0]

\* --------------------------------------------------- the CLI's handlers
\* Each handler is the list of lines it prints and the exit code it passes
\* to process.exit (NoExit when it returns normally).
Effect(lines, code) == [lines |-> lines, exit |-> code]

\* OnStart with the default port written into the message.
OnStartDefaultPort(port, hasWss) ==
  Effect(<<Line("stdout", "Reactotron server listening on port", DefaultPort, "")>>
           \o (IF hasWss THEN <<Line("stdout", "TLS/WSS enabled", 0, "")>> ELSE <<>>),
         NoExit)

OnStart(port, hasWss) ==
  Effect(<<Line("stdout", "Reactotron server listening on port", port, "")>>
           \o (IF hasWss THEN <<Line("stdout", "TLS/WSS enabled", 0, "")>> ELSE <<>>),
         NoExit)

\* OnPortUnavailable that reports the port and exits with code 0.
OnPortUnavailableCodeZero(unavailablePort) ==
  Effect(<<Line("stderr", "Port is already in use", unavailablePort, "")>>, 0)

OnPortUnavailable(unavailablePort) ==
  Effect(<<Line("stderr", "Port is already in use", unavailablePort, "")>>, 1)

OnConnect ==
  Effect(<<Line("stdout", "Client connecting...", 0, "")>>, NoExit)

OrUnknown(name) == IF name = "" THEN "Unknown" ELSE name

OnConnectionEstablished(conn) ==
  Effect(<<Line("stdout", "Connection established", 0, OrUnknown(conn.name))>>, NoExit)

\* OnDisconnect printing the line of the connectionEstablished handler.
OnDisconnectWrongLine(conn) ==
  Effect(<<Line("stdout", "Connection established", 0, OrUnknown(conn.name))>>, NoExit)

OnDisconnect(conn) ==
  Effect(<<Line("stdout", "Client disconnected", 0, OrUnknown(conn.name))>>, NoExit)

\* OnCommand that treats a frame as fatal.
OnCommandExits(type) ==
  Effect(IF type # "client.intro" THEN <<Line("stdout", "command", 0, type)>> ELSE <<>>,
         IF type # "client.intro" THEN 1 ELSE NoExit)

OnCommand(type) ==
  Effect(IF type # "client.intro" THEN <<Line("stdout", "command", 0, type)>> ELSE <<>>,
         NoExit)

OnStop ==
  Effect(<<Line("stdout", "Reactotron server stopped", 0, "")>>, NoExit)

OnRunRejected ==
  Effect(<<Line("stderr", "Error starting server:", 0, "")>>, 1)

PrintHelp ==
  Effect(<<Line("stdout", "Reactotron Server CLI", 0, "")>>, 0)

\* ------------------------------------------------------- server facade
ConnIds == 1 .. Len(conns)

LiveConns(p) == {c \in ConnIds : conns[c].srv = p /\ conns[c].state # "Closed"}

\* listen(port): the port is unavailable when another process holds it.
PortTaken(port) == \E q \in Procs : boundPort[q] = port /\ port # 0

\* ------------------------------------------------- effects of a handler
\* Two handlers run one after the other; process.exit in the first ends
\* the process before the second runs.
Then(e1, e2) == IF e1.exit # NoExit THEN e1 ELSE Effect(e1.lines \o e2.lines, e2.exit)

CountMsg(lines, msg) == Cardinality({i \in DOMAIN lines : lines[i].m = msg})

\* The per-connection lines of the console, counted per connection.
Tally(log, lines) ==
  [connecting |-> log.connecting + CountMsg(lines, "Client connecting..."),
   established |-> log.established + CountMsg(lines, "Connection established"),
   disconnected |-> log.disconnected + CountMsg(lines, "Client disconnected"),
   command |-> log.command + CountMsg(lines, "command")]

IsLifecycleLine(l) ==
  l.m \notin {"Client connecting...", "Connection established", "Client disconnected",
              "command"}

\* The process after a handler ran: it has exited when the handler called
\* process.exit, and the operating system then releases its port.
ProcAfter(p, eff, cause) ==
  /\ out' = [out EXCEPT ![p] = @ \o SelectSeq(eff.lines, IsLifecycleLine)]
  /\ pc' = IF eff.exit # NoExit THEN [pc EXCEPT ![p] = "exited"] ELSE pc
  /\ exitCode' = IF eff.exit # NoExit THEN [exitCode EXCEPT ![p] = eff.exit] ELSE exitCode
  /\ exitCause' = IF eff.exit # NoExit THEN [exitCause EXCEPT ![p] = cause] ELSE exitCause
  /\ boundPort' = IF eff.exit # NoExit THEN [boundPort EXCEPT ![p] = 0] ELSE boundPort

\* ------------------------------------------------- connection registry
NoLog == [connecting |-> 0, established |-> 0, disconnected |-> 0, command |-> 0]

NewConn(p) ==
  [srv |-> p, state |-> "AwaitingIntro", clientId |-> "", name |-> "", cmds |-> <<>>,
   errFired |-> FALSE, closeFired |-> FALSE, closing |-> FALSE,
   disconnected |-> 0, log |-> NoLog]

\* Custom commands a client may declare.  args is the declared argument
\* list; hasArgs is FALSE when the declaration carries no args field.
CmdReset == [id |-> 1, command |-> "reset", hasArgs |-> TRUE, args |-> <<"a", "b">>]
CmdPing == [id |-> 2, command |-> "ping", hasArgs |-> FALSE, args |-> <<>>]
CmdEcho == [id |-> 3, command |-> "echo", hasArgs |-> TRUE, args |-> <<>>]
RegPayloads == {<<CmdReset>>, <<CmdReset, CmdPing>>, <<CmdEcho>>}

WithClient(cmds, clientId) ==
  [i \in DOMAIN cmds |-> [clientId |-> clientId, id |-> cmds[i].id,
                          command |-> cmds[i].command, hasArgs |-> cmds[i].hasArgs,
                          args |-> cmds[i].args]]

RECURSIVE AllCommandsFrom(_, _, _)
\* allCommands(): every command the command registry of server p holds,
\* by connection registration order, then declared order.
AllCommandsFrom(cs, p, c) ==
  IF c > Len(cs) THEN <<>>
  ELSE (IF cs[c].srv = p THEN cs[c].cmds ELSE <<>>) \o AllCommandsFrom(cs, p, c + 1)

allCommands(cs, p) == AllCommandsFrom(cs, p, 1)

\* --------------------------------------------------------------- run()
\* run() up to and including server.start(): parseArgs, --help, createServer,
\* the handlers' registration, start().  A failure thrown by createServer or
\* start (TLS material that cannot be loaded) rejects run() and is caught
\* by the module's catch handler.
Run(p) ==
  /\ pc[p] = "new"
  /\ LET r == parseArgs(argv[p]) IN
     /\ parsed' = [parsed EXCEPT ![p] = r]
     /\ IF r.exited
          THEN /\ pc' = [pc EXCEPT ![p] = "exited"]
               /\ exitCode' = [exitCode EXCEPT ![p] = r.code]
               /\ exitCause' = [exitCause EXCEPT ![p] = "parseArgs"]
               /\ out' = [out EXCEPT ![p] = @ \o <<r.err>>]
               /\ UNCHANGED <<options, srv>>
          ELSE IF r.help
            THEN /\ pc' = [pc EXCEPT ![p] = "exited"]
                 /\ exitCode' = [exitCode EXCEPT ![p] = PrintHelp.exit]
                 /\ exitCause' = [exitCause EXCEPT ![p] = "help"]
                 /\ out' = [out EXCEPT ![p] = @ \o PrintHelp.lines]
                 /\ UNCHANGED <<options, srv>>
            ELSE /\ options' = [options EXCEPT ![p] =
                       [created |-> TRUE, port |-> r.port, hasWss |-> r.hasWss,
                        wss |-> IF r.hasWss THEN r.wss ELSE EmptyObj]]
                 /\ \E throws \in (IF r.hasWss THEN BOOLEAN ELSE {FALSE}) :
                      IF throws
                        THEN /\ pc' = [pc EXCEPT ![p] = "exited"]
                             /\ exitCode' = [exitCode EXCEPT ![p] = OnRunRejected.exit]
                             /\ exitCause' = [exitCause EXCEPT ![p] = "run.catch"]
                             /\ out' = [out EXCEPT ![p] = @ \o OnRunRejected.lines]
                             /\ srv' = [srv EXCEPT ![p] = "Stopped"]
                        ELSE /\ pc' = [pc EXCEPT ![p] = "running"]
                             /\ srv' = [srv EXCEPT ![p] = "Binding"]
                             /\ UNCHANGED <<exitCode, exitCause, out>>
  /\ UNCHANGED <<argv, boundPort, stopInfo, conns, ui>>

\* The outcome of the bind started by server.start(): "portUnavailable" when
\* the port is held by another process, "start" otherwise; the matching
\* handler of the CLI runs.
BindResult(p) ==
  /\ pc[p] = "running"
  /\ srv[p] = "Binding"
  /\ LET port == options[p].port
         eff == IF PortTaken(port) THEN OnPortUnavailable(port)
                ELSE OnStart(port, options[p].hasWss)
     IN /\ out' = [out EXCEPT ![p] = @ \o eff.lines]
        /\ srv' = [srv EXCEPT ![p] = IF PortTaken(port) THEN "Stopped" ELSE "Listening"]
        /\ IF eff.exit # NoExit
             THEN /\ pc' = [pc EXCEPT ![p] = "exited"]
                  /\ exitCode' = [exitCode EXCEPT ![p] = eff.exit]
                  /\ exitCause' = [exitCause EXCEPT ![p] =
                         IF PortTaken(port) THEN "portUnavailable" ELSE "start"]
                  /\ boundPort' = [boundPort EXCEPT ![p] = 0]
             ELSE /\ boundPort' = [boundPort EXCEPT ![p] =
                         IF PortTaken(port) THEN 0 ELSE port]
                  /\ UNCHANGED <<pc, exitCode, exitCause>>
  /\ UNCHANGED <<argv, parsed, options, stopInfo, conns, ui>>

\* ------------------------------------------------ CustomCommands page
UiHost == 1     \* the server whose registry the page lists

Key(cc) == <<cc.clientId, cc.id>>

Range(f) == {f[i] : i \in DOMAIN f}

\* The initializer passed to useReducer.
InitArgMap(args, hasArgs) ==
  IF ~hasArgs THEN EmptyObj ELSE [n \in Range(args) |-> ""]

\* The heap of argument-map objects: a reference is a positive integer, a
\* new object takes the first free reference, an object nothing refers to
\* any more is collected.
Alloc(heap) ==
  CHOOSE r \in 1 .. Cardinality(DOMAIN heap) + 1 :
    r \notin DOMAIN heap /\ \A q \in 1 .. r - 1 : q \in DOMAIN heap

Collect(u) ==
  [u EXCEPT !.heap = [r \in DOMAIN u.heap \cap (Range(u.items) \cup {u.prev}) |->
                        u.heap[r]]]

RECURSIVE Render(_, _, _, _, _)
\* One render of the list: an item whose key was already mounted keeps its
\* state, a new key mounts with a freshly allocated argument map, a key no
\* longer listed unmounts.
Render(list, i, old, items, heap) ==
  IF i > Len(list) THEN [items |-> items, heap |-> heap]
  ELSE LET k == Key(list[i]) IN
    IF k \in DOMAIN items THEN Render(list, i + 1, old, items, heap)
    ELSE IF k \in DOMAIN old
      THEN Render(list, i + 1, old, SetKey(items, k, old[k]), heap)
      ELSE Render(list, i + 1, old, SetKey(items, k, Alloc(heap)),
                  SetKey(heap, Alloc(heap), InitArgMap(list[i].args, list[i].hasArgs)))

CustomCommands(u, customCommands) ==
  IF ~u.mounted THEN u
  ELSE LET r == Render(customCommands, 1, u.items, [k \in {} |-> 0], u.heap)
       IN Collect([u EXCEPT !.items = r.items, !.heap = r.heap,
                            !.entered = [k \in DOMAIN r.items |->
                                           IF k \in DOMAIN u.items THEN u.entered[k]
                                           ELSE EmptyObj]])

\* The reducer writing the new value into the state object it was given.
customCommandItemReducerInPlace(heap, state, action) ==
  IF action.type = "UPDATE_ARG"
    THEN [heap |-> [heap EXCEPT ![state] = SetKey(@, action.argName, action.value)],
          state |-> state]
    ELSE [heap |-> heap, state |-> state]

\* customCommandItemReducer over a heap of argument maps: state is a
\* reference; produce() returns a new object, or the same one when the
\* recipe changes nothing.
customCommandItemReducer(heap, state, action) ==
  IF action.type = "UPDATE_ARG"
    THEN IF action.argName \in DOMAIN heap[state]
            /\ heap[state][action.argName] = action.value
           THEN [heap |-> heap, state |-> state]
           ELSE [heap |-> SetKey(heap, Alloc(heap),
                                 SetKey(heap[state], action.argName, action.value)),
                 state |-> Alloc(heap)]
    ELSE [heap |-> heap, state |-> state]

\* invoke(clientId, command, args) of the router: the most recently
\* registered live connection of that client, or TargetNotFound.
invoke(cs, p, clientId, command, args) ==
  LET targets == {c \in DOMAIN cs : cs[c].srv = p /\ cs[c].state = "Active"
                                    /\ cs[c].clientId = clientId}
  IN IF targets = {}
       THEN [result |-> "TargetNotFound", conn |-> 0, target |-> clientId,
             command |-> command, args |-> args]
       ELSE [result |-> "delivered",
             conn |-> CHOOSE c \in targets : \A d \in targets : d <= c,
             target |-> clientId, command |-> command, args |-> args]

\* sendCustomCommand(command, args) of CustomCommandsContext: it is given
\* no client, the invocation goes to the client the context has selected.
sendCustomCommand(u, cs, command, args) ==
  invoke(cs, UiHost, u.selected, command, args)

NoSent == [entry |-> <<"", 0>>, result |-> "", conn |-> 0, target |-> "",
           command |-> "", args |-> EmptyObj]

\* --------------------------------------------------- connection events
\* A socket is accepted: the registry stores it and emits "connect".
Connect(p) ==
  /\ pc[p] = "running"
  /\ srv[p] = "Listening"
  /\ Len(conns) < MaxConns
  /\ LET eff == OnConnect IN
     /\ conns' = Append(conns, [NewConn(p) EXCEPT !.log = Tally(@, eff.lines)])
     /\ ProcAfter(p, eff, "connect")
  /\ UNCHANGED <<argv, parsed, options, srv, stopInfo, ui>>

\* The introduction frame: AwaitingIntro -> Active, "connectionEstablished"
\* and the frame's "command" event.  While the page is mounted a client
\* holds one connection at a time, so that the keys of the list are distinct.
Intro(c, clientId) ==
  /\ c \in ConnIds
  /\ conns[c].state = "AwaitingIntro"
  /\ pc[conns[c].srv] = "running"
  /\ ~conns[c].closing
  /\ ui.mounted => \A d \in ConnIds : conns[d].state = "Active"
                                         => conns[d].clientId # clientId
  /\ LET p == conns[c].srv
         conn == [conns[c] EXCEPT !.state = "Active", !.clientId = clientId,
                                  !.name = clientId]
         eff == Then(OnCommand("client.intro"), OnConnectionEstablished(conn))
     IN /\ conns' = [conns EXCEPT ![c] = [conn EXCEPT !.log = Tally(@, eff.lines)]]
        /\ ProcAfter(p, eff, "connectionEstablished")
  /\ UNCHANGED <<argv, parsed, options, srv, stopInfo, ui>>

\* A command-registration frame replaces the connection's command set; the
\* page re-renders from allCommands().
Register(c, payload) ==
  /\ c \in ConnIds
  /\ conns[c].state = "Active"
  /\ pc[conns[c].srv] = "running"
  /\ conns' = [conns EXCEPT ![c].cmds = WithClient(payload, conns[c].clientId)]
  /\ ui' = IF conns[c].srv = UiHost THEN CustomCommands(ui, allCommands(conns', UiHost))
           ELSE ui
  /\ UNCHANGED <<argv, pc, parsed, options, srv, boundPort, exitCode, exitCause, out,
                 stopInfo>>

RECURSIVE SumCommands(_, _)
SumCommands(cs, c) == IF c > Len(cs) THEN 0 ELSE cs[c].log.command + SumCommands(cs, c + 1)

FramesLogged(cs) == SumCommands(cs, 1)

\* Any other frame is re-emitted as a "command" event.
Frame(c, type) ==
  /\ c \in ConnIds
  /\ conns[c].state = "Active"
  /\ pc[conns[c].srv] = "running"
  /\ FramesLogged(conns) < MaxFrames
  /\ LET eff == OnCommand(type) IN
     /\ conns' = [conns EXCEPT ![c].log = Tally(@, eff.lines)]
     /\ ProcAfter(conns[c].srv, eff, "command")
  /\ UNCHANGED <<argv, parsed, options, srv, stopInfo, ui>>

\* The router's transition to Closed, run on whichever of the socket's
\* events arrives: the first purges the commands and emits "disconnected",
\* a later one finds the connection Closed and does nothing.  When the
\* server is Stopping and this was its last connection, "stop" is emitted.
CloseTransition(c, cs0) ==
  LET p == cs0[c].srv
      first == cs0[c].state # "Closed"
      cs1 == IF first
               THEN [cs0 EXCEPT ![c].state = "Closed", ![c].cmds = <<>>,
                                ![c].disconnected = @ + 1]
               ELSE cs0
      last == /\ first
              /\ srv[p] = "Stopping"
              /\ \A d \in DOMAIN cs1 : cs1[d].srv = p => cs1[d].state = "Closed"
      eff1 == IF first THEN OnDisconnect(cs0[c]) ELSE Effect(<<>>, NoExit)
      eff == IF last THEN Then(eff1, OnStop) ELSE eff1
  IN /\ conns' = [cs1 EXCEPT ![c].log = Tally(@, eff.lines)]
     /\ srv' = IF last THEN [srv EXCEPT ![p] = "Stopped"] ELSE srv
     /\ stopInfo' = IF first /\ cs0[c].closing
                      THEN [stopInfo EXCEPT ![p].disconnected = @ + 1,
                                            ![p].stopped = @ + (IF last THEN 1 ELSE 0)]
                      ELSE stopInfo
     /\ ProcAfter(p, eff, "disconnect")
     /\ ui' = IF p = UiHost THEN CustomCommands(ui, allCommands(conns', UiHost)) ELSE ui

SocketError(c) ==
  /\ c \in ConnIds
  /\ pc[conns[c].srv] = "running"
  /\ ~conns[c].errFired
  /\ CloseTransition(c, [conns EXCEPT ![c].errFired = TRUE])
  /\ UNCHANGED <<argv, parsed, options>>

SocketClose(c) ==
  /\ c \in ConnIds
  /\ pc[conns[c].srv] = "running"
  /\ ~conns[c].closeFired
  /\ CloseTransition(c, [conns EXCEPT ![c].closeFired = TRUE])
  /\ UNCHANGED <<argv, parsed, options>>

\* ------------------------------------------------------------ shutdown
\* server.stop() as the shutdown handler sees it: the lines printed by the
\* "stop" handler if the event is emitted before stop() returns.  From
\* Listening the listener is closed and every connection's socket is asked
\* to close; "stop" is emitted at once only when there is no connection to
\* wait for.  A stop() during Binding may or may not emit "stop".
StopEmitsNow(p, duringBinding) ==
  \/ srv[p] = "Listening" /\ LiveConns(p) = {}
  \/ srv[p] = "Binding" /\ duringBinding

shutdown(stopEffect) ==
  Then(Then(Effect(<<Line("stdout", "Shutting down...", 0, "")>>, NoExit), stopEffect),
       Effect(<<>>, 0))

\* SIGINT or SIGTERM delivered to a process whose handlers are registered.
Signal(p, sig) ==
  /\ pc[p] = "running"
  /\ \E duringBinding \in (IF srv[p] = "Binding" THEN BOOLEAN ELSE {FALSE}) :
       LET now == StopEmitsNow(p, duringBinding)
           eff == shutdown(IF now THEN OnStop ELSE Effect(<<>>, NoExit))
       IN /\ srv' = [srv EXCEPT ![p] =
                       IF srv[p] = "Listening" /\ ~now THEN "Stopping"
                       ELSE IF srv[p] \in {"Listening", "Binding"} THEN "Stopped"
                       ELSE @]
          /\ conns' = [c \in DOMAIN conns |->
                         IF conns[c].srv = p /\ conns[c].state # "Closed"
                              /\ srv[p] = "Listening"
                           THEN [conns[c] EXCEPT !.closing = TRUE]
                           ELSE conns[c]]
          /\ stopInfo' = [stopInfo EXCEPT ![p] =
                            [called |-> TRUE, from |-> srv[p],
                             n |-> Cardinality(LiveConns(p)), disconnected |-> 0,
                             stopped |-> IF now THEN 1 ELSE 0]]
          /\ out' = [out EXCEPT ![p] = @ \o eff.lines]
          /\ pc' = IF eff.exit # NoExit THEN [pc EXCEPT ![p] = "exited"] ELSE pc
          /\ exitCode' = IF eff.exit # NoExit THEN [exitCode EXCEPT ![p] = eff.exit]
                         ELSE exitCode
          /\ exitCause' = IF eff.exit # NoExit THEN [exitCause EXCEPT ![p] = sig]
                          ELSE exitCause
          /\ boundPort' = [boundPort EXCEPT ![p] = 0]
  /\ UNCHANGED <<argv, parsed, options, ui>>

\* ---------------------------------------------------------- page events
ArgValues == {"", "x"}

Entry(k) ==
  LET list == allCommands(conns, UiHost)
  IN list[CHOOSE i \in DOMAIN list : Key(list[i]) = k]

\* The context's selected client changes.
SelectClient(clientId) ==
  /\ ui.mounted
  /\ ui.selected # clientId
  /\ ui' = [ui EXCEPT !.selected = clientId]
  /\ UNCHANGED <<argv, pc, parsed, options, srv, boundPort, exitCode, exitCause, out,
                 stopInfo, conns>>

\* dispatch(action) on the item with key k; prev is the state object the
\* item held before, entered the values typed into the item's inputs.
Dispatch(k, action) ==
  LET r == customCommandItemReducer(ui.heap, ui.items[k], action)
  IN ui' = Collect([ui EXCEPT !.heap = r.heap, !.items[k] = r.state,
                              !.prev = ui.items[k],
                              !.entered[k] = IF action.type = "UPDATE_ARG"
                                               THEN SetKey(@, action.argName, action.value)
                                               ELSE @])

\* onChange of the ArgInput of a declared argument.
UpdateArg(k, argName, value) ==
  /\ ui.mounted
  /\ k \in DOMAIN ui.items
  /\ Entry(k).hasArgs
  /\ argName \in Range(Entry(k).args)
  /\ Dispatch(k, [type |-> "UPDATE_ARG", argName |-> argName, value |-> value])
  /\ UNCHANGED <<argv, pc, parsed, options, srv, boundPort, exitCode, exitCause, out,
                 stopInfo, conns>>

\* An action of any other type reaches the reducer.
OtherAction(k) ==
  /\ ui.mounted
  /\ k \in DOMAIN ui.items
  /\ Dispatch(k, [type |-> "RESET", argName |-> "", value |-> ""])
  /\ UNCHANGED <<argv, pc, parsed, options, srv, boundPort, exitCode, exitCause, out,
                 stopInfo, conns>>

\* onClick of the Send button of a listed entry.
Send(k) ==
  /\ ui.mounted
  /\ k \in DOMAIN ui.items
  /\ LET r == sendCustomCommand(ui, conns, Entry(k).command, ui.heap[ui.items[k]])
     IN ui' = [ui EXCEPT !.sent = [entry |-> k, result |-> r.result, conn |-> r.conn,
                                   target |-> r.target, command |-> r.command,
                                   args |-> r.args]]
  /\ UNCHANGED <<argv, pc, parsed, options, srv, boundPort, exitCode, exitCause, out,
                 stopInfo, conns>>

\* ------------------------------------------------------- specifications
SeqsUpTo(S, n) == UNION {[1 .. m -> S] : m \in 0 .. n}

\* Command lines of the lifecycle specification.
ArgvLife == {<<>>, <<"--port", "9091">>, <<"-p", "9091", "--wss-pfx", "abc">>,
             <<"--port", "abc">>, <<"-h">>}

NoUi(mounted) ==
  [mounted |-> mounted, items |-> [k \in {} |-> 0], heap |-> [r \in {} |-> EmptyObj],
   selected |-> "", sent |-> NoSent, prev |-> 0, entered |-> [k \in {} |-> EmptyObj]]

InitCommon ==
  /\ parsed = [p \in Procs |-> NotParsed]
  /\ options = [p \in Procs |-> NoOptions]
  /\ srv = [p \in Procs |-> "Idle"]
  /\ boundPort = [p \in Procs |-> 0]
  /\ exitCode = [p \in Procs |-> NoExit]
  /\ exitCause = [p \in Procs |-> ""]
  /\ out = [p \in Procs |-> <<>>]
  /\ stopInfo = [p \in Procs |-> NoStop]
  /\ conns = <<>>

\* Two CLI processes: the first started with any of the lifecycle command
\* lines, the second for the default port when the first has no arguments,
\* for port 9091 otherwise.
Init ==
  /\ \E args \in ArgvLife :
       argv = [p \in Procs |-> IF p = 1 THEN args
                               ELSE IF args = <<>> THEN <<>> ELSE <<"--port", "9091">>]
  /\ pc = [p \in Procs |-> "new"]
  /\ ui = NoUi(FALSE)
  /\ InitCommon

Next ==
  \/ \E p \in Procs : Run(p)
  \/ \E p \in Procs : BindResult(p)
  \/ \E p \in Procs : Connect(p)
  \/ \E c \in 1 .. MaxConns : Intro(c, "A")
  \/ \E c \in 1 .. MaxConns : Frame(c, "log")
  \/ \E c \in 1 .. MaxConns : SocketError(c)
  \/ \E c \in 1 .. MaxConns : SocketClose(c)
  \/ \E p \in Procs, sig \in {"SIGINT", "SIGTERM"} : Signal(p, sig)

Spec == Init /\ [][Next]_vars

\* One CLI process, every command line of at most MaxArgs tokens.
InitParse ==
  /\ \E args \in SeqsUpTo(Tokens, MaxArgs) :
       argv = [p \in Procs |-> IF p = 1 THEN args ELSE <<>>]
  /\ pc = [p \in Procs |-> IF p = 1 THEN "new" ELSE "absent"]
  /\ ui = NoUi(FALSE)
  /\ InitCommon

NextParse ==
  \/ \E p \in Procs : Run(p)
  \/ \E p \in Procs : BindResult(p)
  \/ \E p \in Procs, sig \in {"SIGINT", "SIGTERM"} : Signal(p, sig)

SpecParse == InitParse /\ [][NextParse]_vars

\* One server with the CustomCommands page mounted on its registry.
InitUI ==
  /\ argv = [p \in Procs |-> <<>>]
  /\ pc = [p \in Procs |-> IF p = UiHost THEN "new" ELSE "absent"]
  /\ ui = NoUi(TRUE)
  /\ InitCommon

NextUI ==
  \/ \E p \in Procs : Run(p)
  \/ \E p \in Procs : BindResult(p)
  \/ \E p \in Procs : Connect(p)
  \/ \E c \in 1 .. MaxConns : Intro(c, "A")
  \/ \E c \in 1 .. MaxConns, payload \in {<<CmdReset>>, <<CmdPing>>} : Register(c, payload)
  \/ \E c \in 1 .. MaxConns : SocketClose(c)
  \/ \E k \in DOMAIN ui.items, n \in {"a", "b"}, v \in ArgValues : UpdateArg(k, n, v)
  \/ \E k \in DOMAIN ui.items : OtherAction(k)
  \/ \E k \in DOMAIN ui.items : Send(k)

SpecUI == InitUI /\ [][NextUI]_vars

\* The same server and page, with clients of both identities and the
\* context's client selection; the inputs are left as mounted.
NextRoute ==
  \/ \E p \in Procs : Run(p)
  \/ \E p \in Procs : BindResult(p)
  \/ \E p \in Procs : Connect(p)
  \/ \E c \in 1 .. MaxConns, id \in ClientIds : Intro(c, id)
  \/ \E c \in 1 .. MaxConns, payload \in {<<CmdReset>>, <<CmdEcho>>} : Register(c, payload)
  \/ \E c \in 1 .. MaxConns : SocketClose(c)
  \/ \E id \in ClientIds \cup {""} : SelectClient(id)
  \/ \E k \in DOMAIN ui.items : Send(k)

SpecRoute == InitUI /\ [][NextRoute]_vars

\* One server and its registries, without the page.
InitRegistry ==
  /\ argv = [p \in Procs |-> <<>>]
  /\ pc = [p \in Procs |-> IF p = UiHost THEN "new" ELSE "absent"]
  /\ ui = NoUi(FALSE)
  /\ InitCommon

NextRegistry ==
  \/ \E p \in Procs : Run(p)
  \/ \E p \in Procs : BindResult(p)
  \/ \E p \in Procs : Connect(p)
  \/ \E c \in 1 .. MaxConns, id \in ClientIds : Intro(c, id)
  \/ \E c \in 1 .. MaxConns, payload \in RegPayloads : Register(c, payload)
  \/ \E c \in 1 .. MaxConns : SocketError(c)
  \/ \E c \in 1 .. MaxConns : SocketClose(c)

SpecRegistry == InitRegistry /\ [][NextRegistry]_vars

\* =====================================================================
\* Properties of parseArgs and of the options handed to createServer
\* (checked under SpecParse).
\* =====================================================================

\* The integer a port value denotes: its leading run of decimal digits.
IntValue(tok) == CASE tok = "9091" -> 9091 [] tok = "80x" -> 80

NonNumeric(tok) == tok \notin {"9091", "80x"}

RECURSIVE LastPort(_, _, _)
\* The value of the last --port/-p argument of args, acc when there is none.
LastPort(args, i, acc) ==
  IF i > Len(args) THEN acc
  ELSE IF args[i] \in {"--port", "-p"} /\ i < Len(args)
    THEN LastPort(args, i + 2, IntValue(args[i + 1]))
    ELSE IF args[i] \in {"--wss-pfx", "--wss-cert", "--wss-key", "--wss-passphrase"}
      THEN LastPort(args, i + 2, acc)
      ELSE LastPort(args, i + 1, acc)

RECURSIVE FirstInvalid(_, _)
\* The first invalid argument of args, left to right: its index, the index
\* of the last argument read with it, and the error line it calls for.
FirstInvalid(args, i) ==
  IF i > Len(args) THEN [idx |-> 0, read |-> 0, msg |-> "", tok |-> ""]
  ELSE IF args[i] \in {"--help", "-h"} THEN FirstInvalid(args, i + 1)
  ELSE IF args[i] \in {"--port", "-p"} THEN
    IF i = Len(args)
      THEN [idx |-> i, read |-> i, msg |-> "--port requires a value", tok |-> ""]
      ELSE IF NonNumeric(args[i + 1])
        THEN [idx |-> i, read |-> i + 1, msg |-> "Invalid port", tok |-> args[i + 1]]
        ELSE FirstInvalid(args, i + 2)
  ELSE IF args[i] \in {"--wss-pfx", "--wss-cert", "--wss-key"} THEN
    IF i = Len(args)
      THEN [idx |-> i, read |-> i, tok |-> "",
            msg |-> IF args[i] = "--wss-pfx" THEN "--wss-pfx requires a path"
                    ELSE IF args[i] = "--wss-cert" THEN "--wss-cert requires a path"
                    ELSE "--wss-key requires a path"]
      ELSE FirstInvalid(args, i + 2)
  ELSE IF args[i] = "--wss-passphrase" THEN
    IF i = Len(args)
      THEN [idx |-> i, read |-> i, tok |-> "",
            msg |-> "--wss-passphrase requires a value"]
      ELSE FirstInvalid(args, i + 2)
  ELSE [idx |-> i, read |-> i, msg |-> "Unknown argument", tok |-> args[i]]

Started(p) == pc[p] \in {"running", "exited"}

ListeningLines(p) ==
  {i \in DOMAIN out[p] : out[p][i].m = "Reactotron server listening on port"}

\* C7: the TLS configuration handed to createServer is none, a PFX path with
\* an optional passphrase, or a certificate path together with a key path.
C7_TlsConfigShape ==
  \A p \in Procs :
    options[p].created =>
      IF options[p].hasWss
        THEN DOMAIN options[p].wss \in {{"pathToPfx"}, {"pathToPfx", "passphrase"},
                                        {"pathToCert", "pathToKey"}}
        ELSE options[p].wss = EmptyObj

C9_PortIsLastPortArgument ==
  \A p \in Procs :
    /\ options[p].created => options[p].port = LastPort(argv[p], 1, 9090)
    /\ \A i \in ListeningLines(p) : out[p][i].n = LastPort(argv[p], 1, 9090)
    /\ srv[p] = "Listening" => ListeningLines(p) # {}

\* A server listening on the port of the second of two port arguments.
C9_Witness ==
  \E p \in Procs :
    /\ srv[p] = "Listening"
    /\ ListeningLines(p) # {}
    /\ Len(argv[p]) = 4
    /\ argv[p][1] \in {"--port", "-p"} /\ argv[p][3] \in {"--port", "-p"}
    /\ IntValue(argv[p][2]) # IntValue(argv[p][4])
    /\ options[p].port = IntValue(argv[p][4])

\* =====================================================================
\* Properties of the process lifecycle (checked under Spec).
\* =====================================================================

LastLine(p) == out[p][Len(out[p])]

\* C1: when the bind of a process finds its port held by a listening
\* process, it prints "Port p is already in use" and exits with code 1
\* without ever listening, and the holder keeps the port and stays Listening.
C1_SecondStartIsRefused ==
  [][\A q \in Procs :
       (BindResult(q) /\ PortTaken(options[q].port)) =>
          /\ pc'[q] = "exited"
          /\ exitCode'[q] = 1
          /\ exitCause'[q] = "portUnavailable"
          /\ out'[q] = Append(out[q], Line("stderr", "Port is already in use",
                                           options[q].port, ""))
          /\ srv'[q] # "Listening" /\ boundPort'[q] = 0
          /\ \A o \in Procs :
               boundPort[o] = options[q].port =>
                 /\ boundPort'[o] = boundPort[o]
                 /\ srv[o] = "Listening" /\ srv'[o] = "Listening"
                 /\ pc'[o] = "running"]_vars

\* One process listens on a port, the other was refused that port.
C1_Witness ==
  \E o \in Procs, q \in Procs :
    /\ srv[o] = "Listening" /\ boundPort[o] = options[q].port /\ pc[o] = "running"
    /\ exitCause[q] = "portUnavailable" /\ exitCode[q] = 1
    /\ LastLine(q).m = "Port is already in use"

\* C2: a process that reported listening and was ended by SIGINT or SIGTERM
\* printed "Shutting down..." and then "Reactotron server stopped" before it
\* exited with code 0.
C2_StopObservedBeforeExit ==
  \A p \in Procs :
    (exitCause[p] \in {"SIGINT", "SIGTERM"} /\ ListeningLines(p) # {}) =>
      /\ exitCode[p] = 0
      /\ Len(out[p]) >= 2
      /\ out[p][Len(out[p]) - 1].m = "Shutting down..."
      /\ LastLine(p).m = "Reactotron server stopped"

\* C3: once the process that called stop() on a listening server with N
\* live connections has finished, N disconnected events and one stopped
\* event were emitted, and the port is free.
C3_StopDisconnectsEveryConnection ==
  \A p \in Procs :
    (stopInfo[p].called /\ stopInfo[p].from = "Listening" /\ pc[p] = "exited") =>
      /\ stopInfo[p].disconnected = stopInfo[p].n
      /\ stopInfo[p].stopped = 1
      /\ boundPort[p] = 0

\* C6: the handlers of connect, connectionEstablished, disconnect and
\* command never end the process, and a nonzero exit comes only from
\* parseArgs, from portUnavailable or from the rejection of run().
C6_ConnectionEventsNeverExit ==
  \A p \in Procs :
    /\ exitCause[p] \notin {"connect", "connectionEstablished", "disconnect", "command"}
    /\ exitCode[p] \notin {NoExit, 0} =>
         exitCause[p] \in {"parseArgs", "portUnavailable", "run.catch"}
    /\ \A c \in ConnIds :
         (conns[c].srv = p /\ pc[p] = "exited") =>
            exitCause[p] \in {"SIGINT", "SIGTERM"}

\* A connection went through connect, introduction, a command and its
\* disconnect, and the process is still running.
C6_Witness ==
  \E c \in ConnIds :
    /\ conns[c].log.connecting = 1 /\ conns[c].log.established = 1
    /\ conns[c].log.command = 1 /\ conns[c].log.disconnected = 1
    /\ conns[c].errFired
    /\ pc[conns[c].srv] = "running"

\* =====================================================================
\* Properties of the registries (checked under SpecRegistry).
\* =====================================================================

ClosingStep(c) == SocketError(c) \/ SocketClose(c)

RECURSIVE LiveCommands(_, _)
\* The commands declared by the connections of server p that are not
\* closed, from connection c on.
LiveCommands(p, c) ==
  IF c > Len(conns) THEN <<>>
  ELSE (IF conns[c].srv = p /\ conns[c].state # "Closed" THEN conns[c].cmds ELSE <<>>)
       \o LiveCommands(p, c + 1)

\* A connection has emitted and logged one disconnected
\* event exactly when it is Closed, either socket event closes it, and a
\* Closed connection has no command left in allCommands().
C4_Registry ==
  \A c \in ConnIds :
    /\ conns[c].disconnected = (IF conns[c].state = "Closed" THEN 1 ELSE 0)
    /\ conns[c].log.disconnected = conns[c].disconnected
    /\ (conns[c].errFired \/ conns[c].closeFired) => conns[c].state = "Closed"
    /\ conns[c].state = "Closed" =>
         /\ conns[c].cmds = <<>>
         /\ allCommands(conns, conns[c].srv) = LiveCommands(conns[c].srv, 1)

\* C4: whatever the order of a socket's error and close events, the
\* connection's disconnected event is emitted (and logged) exactly once, from
\* then on allCommands() holds none of its commands, nothing but the record
\* of the socket's events changes in a Closed connection, and the commands of
\* the other connections are left as they were.
C4_DisconnectedOnce ==
  /\ []C4_Registry
  /\ [][
     \A c \in ConnIds :
          /\ ClosingStep(c) =>
               \A d \in ConnIds \ {c} : conns'[d].cmds = conns[d].cmds
          /\ conns[c].state = "Closed" => conns'[c] = [conns[c] EXCEPT
                                                        !.errFired = conns'[c].errFired,
                                                        !.closeFired = conns'[c].closeFired]
    ]_vars

\* A connection that was introduced saw both socket events, next to a
\* live connection that still lists its commands.
C4_Witness ==
  \E c \in ConnIds, d \in ConnIds :
    /\ conns[c].errFired /\ conns[c].closeFired /\ conns[c].state = "Closed"
    /\ conns[c].clientId # ""
    /\ conns[d].state = "Active" /\ conns[d].cmds # <<>>
    /\ allCommands(conns, UiHost) = conns[d].cmds

\* =====================================================================
\* Properties of the CustomCommands page (checked under SpecRoute, SpecUI).
\* =====================================================================

\* C5: an invocation sent from a listed entry is delivered to the live
\* connection of that entry's client and to no other, and fails with
\* TargetNotFound when that client has no live connection.
C5_SendReachesListedClient ==
  ui.sent.result = "delivered" => conns[ui.sent.conn].clientId = ui.sent.entry[1]

Declared(k) == IF Entry(k).hasArgs THEN Range(Entry(k).args) ELSE {}

\* The state map of every mounted item: the declared argument names as
\* keys, each with the last value entered for it, "" if none.
C10_StateMap ==
  \A k \in DOMAIN ui.items :
    /\ DOMAIN ui.heap[ui.items[k]] = Declared(k)
    /\ \A n \in Declared(k) :
         ui.heap[ui.items[k]][n] =
           (IF n \in DOMAIN ui.entered[k] THEN ui.entered[k][n] ELSE "")

====
